---- MODULE Spec2Model ----
(***************************************************************************)
(* unison-fsmonitor (src/src/main.rs): the Monitor state machine           *)
(* (Monitor::handle_event), the wire codec (encode, decode, parse_input)   *)
(* and the wiring of main (two producer threads onto one mpsc channel      *)
(* consumed serially by the dispatcher loop).                              *)
(*                                                                         *)
(* Strings are sequences of symbols.  A symbol is one character ("x",      *)
(* "/", " ", "%", "\t", ...) or, for fixed protocol text, one word that    *)
(* holds no whitespace, no "/" and no "%" ("START", "Unknown", ...).       *)
(* A PathBuf is kept by its components, as std::path compares and hashes   *)
(* it: [abs |-> has a root, comps |-> the normal components].              *)
(***************************************************************************)
EXTENDS Naturals, Sequences, FiniteSets, TLC

(***************************************************************************)
(* Strings and the wire codec                                              *)
(***************************************************************************)

\* Characters str::split_whitespace splits at.
Whitespace == {" ", "\t", "\n"}

\* percent_encoding::SIMPLE_ENCODE_SET: the C0 controls (and bytes above
\* 0x7E), each written %HH.  Of these the model's alphabet holds tab and
\* line feed.  Space (0x20) and "%" (0x25) are NOT in the set.
SIMPLE_ENCODE_SET == ("\t" :> <<"%", "0", "9">>) @@ ("\n" :> <<"%", "0", "A">>)

\* The bytes percent_decode produces for the %HH triples of the alphabet.
PercentByte ==
  (<<"0", "9">> :> "\t") @@ (<<"0", "A">> :> "\n") @@
  (<<"2", "0">> :> " ") @@ (<<"2", "5">> :> "%")

RECURSIVE encode(_)
encode(s) ==
  IF s = <<>> THEN <<>>
  ELSE (IF s[1] \in DOMAIN SIMPLE_ENCODE_SET
          THEN SIMPLE_ENCODE_SET[s[1]] ELSE <<s[1]>>) \o encode(Tail(s))

RECURSIVE decode(_)
decode(s) ==
  IF s = <<>> THEN <<>>
  ELSE IF s[1] = "%" /\ Len(s) >= 3 /\ <<s[2], s[3]>> \in DOMAIN PercentByte
    THEN <<PercentByte[<<s[2], s[3]>>]>> \o decode(SubSeq(s, 4, Len(s)))
    ELSE <<s[1]>> \o decode(Tail(s))

\* The non-empty maximal runs of s between symbols of seps.
RECURSIVE SplitAt(_, _, _, _)
SplitAt(s, seps, i, cur) ==
  IF i > Len(s) THEN (IF cur = <<>> THEN <<>> ELSE <<cur>>)
  ELSE IF s[i] \in seps
    THEN (IF cur = <<>> THEN <<>> ELSE <<cur>>) \o SplitAt(s, seps, i + 1, <<>>)
    ELSE SplitAt(s, seps, i + 1, Append(cur, s[i]))

split_whitespace(s) == SplitAt(s, Whitespace, 1, <<>>)

\* parse_input: first word is the command, every other word is decoded.
parse_input(input) ==
  LET words == split_whitespace(input) IN
  [cmd  |-> IF words = <<>> THEN <<>> ELSE words[1],
   args |-> [i \in 1..(Len(words) - 1) |-> decode(words[i + 1])]]

\* send_cmd: the line written for cmd and args (without the line feed).
RECURSIVE EncodedArgs(_)
EncodedArgs(args) ==
  IF args = <<>> THEN <<>>
  ELSE <<" ">> \o encode(args[1]) \o EncodedArgs(Tail(args))

send_cmd(cmd, args) == cmd \o EncodedArgs(args)

(***************************************************************************)
(* std::path                                                               *)
(***************************************************************************)

PathBuf_new == [abs |-> FALSE, comps |-> <<>>]

PathBuf_from(s) ==
  [abs |-> s # <<>> /\ s[1] = "/", comps |-> SplitAt(s, {"/"}, 1, <<>>)]

RECURSIVE JoinComps(_)
JoinComps(comps) ==
  IF comps = <<>> THEN <<>>
  ELSE IF Len(comps) = 1 THEN comps[1]
  ELSE comps[1] \o <<"/">> \o JoinComps(Tail(comps))

to_string_lossy(p) == (IF p.abs THEN <<"/">> ELSE <<>>) \o JoinComps(p.comps)

\* Path::components: the root, when there is one, is a component too.
components(p) == (IF p.abs THEN << <<"/">> >> ELSE <<>>) \o p.comps

IsPrefix(s, t) == Len(s) <= Len(t) /\ SubSeq(t, 1, Len(s)) = s

starts_with(p, base) == IsPrefix(components(base), components(p))

\* Path::strip_prefix, where starts_with(p, base): what follows base in p.
strip_prefix(p, base) ==
  [abs   |-> p.abs /\ ~base.abs,
   comps |-> SubSeq(p.comps, Len(base.comps) + 1, Len(p.comps))]

\* Path::join: an absolute q replaces p.
join(p, q) ==
  IF q.abs THEN q ELSE [abs |-> p.abs, comps |-> p.comps \o q.comps]

(***************************************************************************)
(* The inputs of the model                                                 *)
(***************************************************************************)

id_a == <<"a">>
id_b == <<"b">>

s_x  == <<"/", "x">>
s_xy == <<"/", "x", "/", "y">>

p_x   == PathBuf_from(s_x)
p_xy  == PathBuf_from(s_xy)
p_xyz == PathBuf_from(<<"/", "x", "/", "y", "/", "z">>)
p_xyt == PathBuf_from(<<"/", "x", "/", "y", "/", "\t">>)
p_xl  == PathBuf_from(<<"/", "x", "/", "l">>)
p_r   == PathBuf_from(<<"/", "r">>)
p_rz  == PathBuf_from(<<"/", "r", "/", "z">>)

\* A line as the parent writes it: the verb, its arguments, a line feed.
Line(verb, args) == send_cmd(<<verb>>, args) \o <<"\n">>

\* The lines handle_event is given: every verb, two replica ids, two
\* overlapping roots, a subdirectory, lines that lack their argument, an
\* unknown verb, and the empty line read_line yields at end of input.
StartLines ==
  { Line("START", <<id_a, s_x>>), Line("START", <<id_a, s_x, <<"y">> >>),
    Line("START", <<id_a, s_xy>>), Line("START", <<id_b, s_xy>>),
    Line("START", <<id_b, s_x>>) }

InputLines ==
  StartLines \cup
  { Line("VERSION", << <<"1">> >>), Line("VERSION", << <<"2">> >>),
    Line("VERSION", <<>>),
    Line("DIR", <<>>), Line("DIR", << <<"y">> >>),
    Line("LINK", << <<"l">> >>),
    Line("WAIT", <<id_a>>), Line("WAIT", <<id_b>>),
    Line("CHANGES", <<id_a>>), Line("CHANGES", <<id_b>>),
    Line("CHANGES", <<>>),
    Line("RESET", <<id_a>>), Line("RESET", <<id_b>>),
    Line("DEBUG", <<>>), Line("DONE", <<>>),
    Line("FROB", << <<"1">> >>),
    <<>> }

\* The paths raw events carry (RawEvent.path is an Option: a sequence of
\* at most one path).
FsPaths == {p_xyz, p_xyt, p_rz}

Input(input)   == [kind |-> "Input", input |-> input, path |-> <<>>]
FSEvent(path)  == [kind |-> "FSEvent", input |-> <<>>, path |-> path]
NoEvent        == [kind |-> "None", input |-> <<>>, path |-> <<>>]

Events ==
  {Input(l) : l \in InputLines} \cup {FSEvent(<<p>>) : p \in FsPaths}
    \cup {FSEvent(<<>>)}

\* The file system Path::canonicalize reads: the directories that exist,
\* and one symbolic link, /x/l -> /r.
Existing == {p_x, p_xy, p_r}
Symlinks == (p_xl :> p_r)

\* Path::canonicalize as an Option: <<real>>, or <<>> for an Err.
canonicalize(p) ==
  LET via  == {l \in DOMAIN Symlinks : starts_with(p, l)}
      real == {join(Symlinks[l], strip_prefix(p, l)) : l \in via}
                \cup (IF via = {} THEN {p} ELSE {})
      ok   == real \cap Existing
  IN IF ok = {} THEN <<>> ELSE <<CHOOSE q \in ok : TRUE>>

(***************************************************************************)
(* The state                                                               *)
(***************************************************************************)

VARIABLES
  current_path,  \* Monitor.current_path
  replicas,      \* Monitor.replicas: id -> [root, paths, pending_changes]
  link_map,      \* Monitor.link_map: real path -> set of link paths
  watcher,       \* Monitor.watcher: the paths watched and not unwatched
  writer,        \* Monitor.writer: the lines the last handle_event wrote to it
  calls,         \* the Watch calls the last handle_event made
  status,        \* "running", or how the process ended
  event,         \* the event the last handle_event was given
  stdin,         \* the parent's end of standard input
  nread,         \* lines read from standard input so far
  fsevent_rx,    \* the watcher's channel of raw events
  nfs,           \* raw events delivered by the watcher so far
  rx,            \* the channel main's loop receives from
  promised       \* history: per id, the changes owed to the next CHANGES id

monitor_vars == <<current_path, replicas, link_map, watcher, writer, calls,
                  status, event>>
main_vars    == <<stdin, nread, fsevent_rx, nfs, rx, promised>>
vars         == <<current_path, replicas, link_map, watcher, writer, calls,
                  status, event, stdin, nread, fsevent_rx, nfs, rx,
                  promised>>

\* How the process ended: send_error's exit(1), an Err returned from
\* handle_event through main, an index-out-of-bounds panic on args[i].
ExitCode(st) ==
  CASE st = "exit1" -> 1 [] st = "err" -> 1 [] st = "panic" -> 101

\* HashMap::new()
EmptyMap == [k \in {} |-> k]

Replica_new(root) == [root |-> root, paths |-> {}, pending_changes |-> {}]

Init ==
  /\ current_path = PathBuf_new
  /\ replicas = EmptyMap
  /\ link_map = EmptyMap
  /\ watcher = {}
  /\ writer = <<>>
  /\ calls = {}
  /\ status = "running"
  /\ event = NoEvent
  /\ stdin = "open"
  /\ nread = 0
  /\ fsevent_rx = <<>>
  /\ nfs = 0
  /\ rx = <<>>
  /\ promised = [id \in {id_a, id_b} |-> {}]

(***************************************************************************)
(* Monitor                                                                 *)
(***************************************************************************)

\* Replica::is_watching
Replica_is_watching(replica, path) ==
  \E base \in replica.paths : starts_with(path, base)

\* Monitor::is_watching, over a registry
Monitor_is_watching(reps, path) ==
  \E id \in DOMAIN reps : Replica_is_watching(reps[id], path)

\* HashMap::insert / HashMap::remove
MapInsert(map, k, v) == (k :> v) @@ map
MapRemove(map, k)    == [j \in DOMAIN map \ {k} |-> map[j]]

\* The orders a HashSet may be iterated in.
Orderings(S) ==
  {o \in [1..Cardinality(S) -> S] : \A i, j \in DOMAIN o : i # j => o[i] # o[j]}

send_ack            == send_cmd(<<"OK">>, <<>>)
send_changes(id)    == send_cmd(<<"CHANGES">>, <<id>>)
send_recursive(p)   == send_cmd(<<"RECURSIVE">>, <<to_string_lossy(p)>>)
send_done           == send_cmd(<<"DONE">>, <<>>)
\* send_error's line; the caller also ends the process (exit(1)).
send_error(msg)     == send_cmd(<<"ERROR">>, <<msg>>)

UnknownReplica(id)  == <<"Unknown", " ", "replica:", " ">> \o id
UnrecognizedCmd(c)  == <<"Unrecognized", " ", "cmd:", " ">> \o c

\* The arguments each match arm indexes without a check (args[0], args[1]).
NeededArgs(cmd) ==
  CASE cmd = <<"VERSION">> -> 1
    [] cmd = <<"START">>   -> 2
    [] cmd = <<"WAIT">>    -> 1
    [] cmd = <<"CHANGES">> -> 1
    [] cmd = <<"RESET">>   -> 1
    [] OTHER               -> 0

\* What every arm leaves alone unless it says otherwise.
Quiet == /\ calls' = {}
         /\ UNCHANGED watcher

\* args[i] past the end of args: the thread panics.
IndexPanic(e, rest) ==
  /\ e.kind = "Input"
  /\ LET p == parse_input(e.input) IN Len(p.args) < NeededArgs(p.cmd)
  /\ event' = e
  /\ status' = "panic"
  /\ writer' = <<>>
  /\ Quiet
  /\ UNCHANGED <<current_path, replicas, link_map>>
  /\ rest

\* A variant that accepts any version.
Version_Any(e, rest) ==
  /\ e.kind = "Input"
  /\ LET p == parse_input(e.input) IN
       /\ p.cmd = <<"VERSION">>
       /\ Len(p.args) >= 1
  /\ status' = status
  /\ writer' = <<send_cmd(<<"VERSION">>, << <<"1">> >>)>>
  /\ event' = e
  /\ Quiet
  /\ UNCHANGED <<current_path, replicas, link_map>>
  /\ rest

\* "VERSION"
Version(e, rest) ==
  /\ e.kind = "Input"
  /\ LET p == parse_input(e.input) IN
       /\ p.cmd = <<"VERSION">>
       /\ Len(p.args) >= 1
       /\ IF p.args[1] # <<"1">>
            THEN status' = "err" /\ writer' = <<>>
            ELSE status' = status
                 /\ writer' = <<send_cmd(<<"VERSION">>, << <<"1">> >>)>>
  /\ event' = e
  /\ Quiet
  /\ UNCHANGED <<current_path, replicas, link_map>>
  /\ rest

\* START: the path to watch, root joined with the optional subdir.
EffectivePath(args) ==
  IF Len(args) >= 3
    THEN join(PathBuf_from(args[2]), PathBuf_from(args[3]))
    ELSE PathBuf_from(args[2])

\* A variant that inserts a new replica whether or not the id is live.
EntryOrInsert_Replace(reps, replica_id, root) == Replica_new(root)

\* START: replicas.entry(replica_id).or_insert_with(|| Replica::new(root))
EntryOrInsert(reps, replica_id, root) ==
  IF replica_id \in DOMAIN reps THEN reps[replica_id] ELSE Replica_new(root)

\* A variant that looks the path up in the set instead of by prefix.
StartWatches_Exact(replica, path) == path \notin replica.paths

\* START: whether the effective path is to be handed to Watch::watch.
StartWatches(replica, path) == ~Replica_is_watching(replica, path)

\* "START"
Start(e, rest) ==
  /\ e.kind = "Input"
  /\ LET p == parse_input(e.input) IN
       /\ p.cmd = <<"START">>
       /\ Len(p.args) >= 2
       /\ LET replica_id == p.args[1]
              root       == PathBuf_from(p.args[2])
              path       == EffectivePath(p.args)
              replica    == EntryOrInsert(replicas, replica_id, root)
          IN /\ current_path' = path
             /\ IF StartWatches(replica, path)
                  THEN /\ calls' = {[op |-> "watch", path |-> path]}
                       /\ \E ok \in BOOLEAN :
                            IF ok
                              THEN /\ watcher' = watcher \cup {path}
                                   /\ replicas' = MapInsert(replicas, replica_id,
                                        [replica EXCEPT !.paths = @ \cup {path}])
                                   /\ writer' = <<send_ack>>
                                   /\ status' = status
                              ELSE /\ watcher' = watcher
                                   /\ replicas' =
                                        MapInsert(replicas, replica_id, replica)
                                   /\ writer' = <<>>
                                   /\ status' = "err"
                  ELSE /\ Quiet
                       /\ replicas' = MapInsert(replicas, replica_id, replica)
                       /\ writer' = <<send_ack>>
                       /\ status' = status
  /\ event' = e
  /\ UNCHANGED link_map
  /\ rest

\* A variant that descends into the directory it is given.
Dir_Descend(e, rest) ==
  /\ e.kind = "Input"
  /\ LET p == parse_input(e.input) IN
       /\ p.cmd = <<"DIR">>
       /\ current_path' =
            IF Len(p.args) >= 1
              THEN join(current_path, PathBuf_from(p.args[1]))
              ELSE current_path
  /\ event' = e
  /\ writer' = <<send_ack>>
  /\ Quiet
  /\ UNCHANGED <<replicas, link_map, status>>
  /\ rest

\* "DIR"
Dir(e, rest) ==
  /\ e.kind = "Input"
  /\ parse_input(e.input).cmd = <<"DIR">>
  /\ event' = e
  /\ writer' = <<send_ack>>
  /\ Quiet
  /\ UNCHANGED <<current_path, replicas, link_map, status>>
  /\ rest

\* LINK: the link's path, current_path joined with the optional argument.
LinkPath(cur, args) ==
  join(cur, PathBuf_from(IF Len(args) >= 1 THEN args[1] ELSE <<>>))

\* A variant that files the real path under the link.
LinkInsert_ByLink(map, realpath, path) ==
  MapInsert(map, path,
            (IF path \in DOMAIN map THEN map[path] ELSE {}) \cup {realpath})

\* LINK: link_map.entry(realpath).or_default().insert(path)
LinkInsert(map, realpath, path) ==
  MapInsert(map, realpath,
            (IF realpath \in DOMAIN map THEN map[realpath] ELSE {}) \cup {path})

\* "LINK"
Link(e, rest) ==
  /\ e.kind = "Input"
  /\ LET p == parse_input(e.input) IN
       /\ p.cmd = <<"LINK">>
       /\ LET path     == LinkPath(current_path, p.args)
              realpath == canonicalize(path)
          IN IF realpath = <<>>
               THEN /\ status' = "err"
                    /\ writer' = <<>>
                    /\ Quiet
                    /\ UNCHANGED link_map
               ELSE /\ calls' = {[op |-> "watch", path |-> realpath[1]]}
                    /\ \E ok \in BOOLEAN :
                         IF ok
                           THEN /\ watcher' = watcher \cup {realpath[1]}
                                /\ link_map' =
                                     LinkInsert(link_map, realpath[1], path)
                                /\ writer' = <<send_ack>>
                                /\ status' = status
                           ELSE /\ UNCHANGED <<watcher, link_map>>
                                /\ writer' = <<>>
                                /\ status' = "err"
  /\ event' = e
  /\ UNCHANGED <<current_path, replicas>>
  /\ rest

\* A variant that reports the unknown replica and goes on.
Wait_NonFatal(e, rest) ==
  /\ e.kind = "Input"
  /\ LET p == parse_input(e.input) IN
       /\ p.cmd = <<"WAIT">>
       /\ Len(p.args) >= 1
       /\ IF p.args[1] \notin DOMAIN replicas
            THEN writer' = <<send_error(UnknownReplica(p.args[1]))>>
            ELSE writer' = <<>>
  /\ event' = e
  /\ Quiet
  /\ UNCHANGED <<current_path, replicas, link_map, status>>
  /\ rest

\* "WAIT"
Wait(e, rest) ==
  /\ e.kind = "Input"
  /\ LET p == parse_input(e.input) IN
       /\ p.cmd = <<"WAIT">>
       /\ Len(p.args) >= 1
       /\ IF p.args[1] \notin DOMAIN replicas
            THEN /\ writer' = <<send_error(UnknownReplica(p.args[1]))>>
                 /\ status' = "exit1"
            ELSE /\ writer' = <<>>
                 /\ status' = status
  /\ event' = e
  /\ Quiet
  /\ UNCHANGED <<current_path, replicas, link_map>>
  /\ rest

\* CHANGES: the paths drained from the replica, none for an unknown id.
ChangedPaths(reps, replica_id) ==
  IF replica_id \in DOMAIN reps THEN reps[replica_id].pending_changes ELSE {}

\* A variant that reads pending_changes without draining it.
Drained_Kept(reps, replica_id) == reps

\* CHANGES: the registry after replica.pending_changes.drain().
Drained(reps, replica_id) ==
  IF replica_id \in DOMAIN reps
    THEN [reps EXCEPT ![replica_id].pending_changes = {}]
    ELSE reps

\* CHANGES: the reply, for one iteration order of changed_paths.
ChangesReply(order) ==
  [i \in 1..Len(order) |-> send_recursive(order[i])] \o <<send_done>>

\* A variant that treats an unknown replica as WAIT does.
Changes_Fatal(e, rest) ==
  /\ e.kind = "Input"
  /\ LET p == parse_input(e.input) IN
       /\ p.cmd = <<"CHANGES">>
       /\ Len(p.args) >= 1
       /\ replicas' = Drained(replicas, p.args[1])
       /\ IF p.args[1] \notin DOMAIN replicas
            THEN /\ writer' = <<send_error(UnknownReplica(p.args[1]))>>
                 /\ status' = "exit1"
            ELSE /\ status' = status
                 /\ \E order \in Orderings(ChangedPaths(replicas, p.args[1])) :
                      writer' = ChangesReply(order)
  /\ event' = e
  /\ Quiet
  /\ UNCHANGED <<current_path, link_map>>
  /\ rest

\* "CHANGES"
Changes(e, rest) ==
  /\ e.kind = "Input"
  /\ LET p == parse_input(e.input) IN
       /\ p.cmd = <<"CHANGES">>
       /\ Len(p.args) >= 1
       /\ replicas' = Drained(replicas, p.args[1])
       /\ \E order \in Orderings(ChangedPaths(replicas, p.args[1])) :
            writer' = ChangesReply(order)
  /\ event' = e
  /\ Quiet
  /\ UNCHANGED <<current_path, link_map, status>>
  /\ rest

\* A variant that unwatches every path of the removed replica.
ToUnwatch_All(remaining, removed) == removed.paths

\* RESET: the removed replica's paths that are handed to Watch::unwatch.
ToUnwatch(remaining, removed) ==
  {path \in removed.paths : ~Monitor_is_watching(remaining, path)}

\* "RESET"
Reset(e, rest) ==
  /\ e.kind = "Input"
  /\ LET p == parse_input(e.input) IN
       /\ p.cmd = <<"RESET">>
       /\ Len(p.args) >= 1
       /\ IF p.args[1] \in DOMAIN replicas
            THEN LET remaining == MapRemove(replicas, p.args[1])
                     unwatch   == ToUnwatch(remaining, replicas[p.args[1]])
                 IN /\ replicas' = remaining
                    /\ \/ /\ calls' = {[op |-> "unwatch", path |-> q] : q \in unwatch}
                          /\ watcher' = watcher \ unwatch
                          /\ status' = status
                       \/ \E failed \in unwatch :
                            \E done \in SUBSET (unwatch \ {failed}) :
                              /\ calls' = {[op |-> "unwatch", path |-> q] :
                                             q \in done \cup {failed}}
                              /\ watcher' = watcher \ done
                              /\ status' = "err"
            ELSE /\ Quiet
                 /\ UNCHANGED <<replicas, status>>
  /\ event' = e
  /\ writer' = <<>>
  /\ UNCHANGED <<current_path, link_map>>
  /\ rest

\* "DEBUG" | "DONE"
DebugDone(e, rest) ==
  /\ e.kind = "Input"
  /\ parse_input(e.input).cmd \in {<<"DEBUG">>, <<"DONE">>}
  /\ event' = e
  /\ writer' = <<>>
  /\ Quiet
  /\ UNCHANGED <<current_path, replicas, link_map, status>>
  /\ rest

KnownCmds ==
  {<<"VERSION">>, <<"START">>, <<"DIR">>, <<"LINK">>, <<"WAIT">>,
   <<"CHANGES">>, <<"RESET">>, <<"DEBUG">>, <<"DONE">>}

\* A variant that reports the command and goes on.
Unrecognized_NonFatal(e, rest) ==
  /\ e.kind = "Input"
  /\ LET p == parse_input(e.input) IN
       /\ p.cmd \notin KnownCmds
       /\ writer' = <<send_error(UnrecognizedCmd(p.cmd))>>
  /\ status' = status
  /\ event' = e
  /\ Quiet
  /\ UNCHANGED <<current_path, replicas, link_map>>
  /\ rest

\* the default arm
Unrecognized(e, rest) ==
  /\ e.kind = "Input"
  /\ LET p == parse_input(e.input) IN
       /\ p.cmd \notin KnownCmds
       /\ writer' = <<send_error(UnrecognizedCmd(p.cmd))>>
  /\ status' = "exit1"
  /\ event' = e
  /\ Quiet
  /\ UNCHANGED <<current_path, replicas, link_map>>
  /\ rest

\* FSEvent: the event's path and its alias under every link to a prefix.
Candidates(links, path) ==
  {path} \cup
  UNION { {join(link, strip_prefix(path, realpath)) : link \in links[realpath]} :
          realpath \in {r \in DOMAIN links : starts_with(path, r)} }

\* A variant that reports paths relative to the watched subtree.
RelativePaths_Subdir(replica, paths) ==
  {strip_prefix(c[1], c[2]) :
     c \in {q \in paths \X replica.paths :
              starts_with(q[1], replica.root) /\ starts_with(q[1], q[2])}}

\* FSEvent: the relative paths a replica gets for the candidate paths.
RelativePaths(replica, paths) ==
  {strip_prefix(c, replica.root) :
     c \in {q \in paths : starts_with(q, replica.root)}}

\* A variant that notifies every live replica.
Matched_All(reps, paths) == DOMAIN reps

\* FSEvent: matched_replica_ids
Matched(reps, paths) ==
  {id \in DOMAIN reps : RelativePaths(reps[id], paths) # {}}

\* A variant that keeps only the latest event's paths of a matched replica.
Attributed_Overwrite(reps, paths) ==
  [id \in DOMAIN reps |->
     IF RelativePaths(reps[id], paths) = {} THEN reps[id]
     ELSE [reps[id] EXCEPT !.pending_changes = RelativePaths(reps[id], paths)]]

\* FSEvent: the registry after the inserts into pending_changes.
Attributed(reps, paths) ==
  [id \in DOMAIN reps |->
     [reps[id] EXCEPT !.pending_changes = @ \cup RelativePaths(reps[id], paths)]]

\* Event::FSEvent
HandleFSEvent(e, rest) ==
  /\ e.kind = "FSEvent"
  /\ LET paths == IF e.path = <<>> THEN {} ELSE Candidates(link_map, e.path[1])
     IN /\ replicas' = Attributed(replicas, paths)
        /\ \E order \in Orderings(Matched(replicas, paths)) :
             writer' = [i \in 1..Len(order) |-> send_changes(order[i])]
  /\ event' = e
  /\ Quiet
  /\ UNCHANGED <<current_path, link_map, status>>
  /\ rest

\* Monitor::handle_event
handle_event(e, rest) ==
  \/ IndexPanic(e, rest)
  \/ Version(e, rest)
  \/ Start(e, rest)
  \/ Dir(e, rest)
  \/ Link(e, rest)
  \/ Wait(e, rest)
  \/ Changes(e, rest)
  \/ Reset(e, rest)
  \/ DebugDone(e, rest)
  \/ Unrecognized(e, rest)
  \/ HandleFSEvent(e, rest)

\* The events handle_event may be given now: none once the process ended.
Given(evs) == IF status = "running" THEN evs ELSE {}

\* The events of the model by the arm of handle_event they select.
InputEvents    == {e \in Events : e.kind = "Input"}
VerbEvents(cs) == {e \in InputEvents : parse_input(e.input).cmd \in cs}
ShortEvents ==
  {e \in InputEvents :
     Len(parse_input(e.input).args) < NeededArgs(parse_input(e.input).cmd)}
VersionEvents      == VerbEvents({<<"VERSION">>})
StartEvents        == VerbEvents({<<"START">>})
DirEvents          == VerbEvents({<<"DIR">>})
LinkEvents         == VerbEvents({<<"LINK">>})
WaitEvents         == VerbEvents({<<"WAIT">>})
ChangesEvents      == VerbEvents({<<"CHANGES">>})
ResetEvents        == VerbEvents({<<"RESET">>})
DebugDoneEvents    == VerbEvents({<<"DEBUG">>, <<"DONE">>})
UnrecognizedEvents == InputEvents \ VerbEvents(KnownCmds)
FsEvents           == Events \ InputEvents

\* handle_event given any event, one after the other (as the tests drive
\* it): each disjunct gives one arm of handle_event the events that select
\* it.
Next ==
  \/ \E e \in Given(ShortEvents) : IndexPanic(e, UNCHANGED main_vars)
  \/ \E e \in Given(VersionEvents) : Version(e, UNCHANGED main_vars)
  \/ \E e \in Given(StartEvents) : Start(e, UNCHANGED main_vars)
  \/ \E e \in Given(DirEvents) : Dir(e, UNCHANGED main_vars)
  \/ \E e \in Given(LinkEvents) : Link(e, UNCHANGED main_vars)
  \/ \E e \in Given(WaitEvents) : Wait(e, UNCHANGED main_vars)
  \/ \E e \in Given(ChangesEvents) : Changes(e, UNCHANGED main_vars)
  \/ \E e \in Given(ResetEvents) : Reset(e, UNCHANGED main_vars)
  \/ \E e \in Given(DebugDoneEvents) : DebugDone(e, UNCHANGED main_vars)
  \/ \E e \in Given(UnrecognizedEvents) : Unrecognized(e, UNCHANGED main_vars)
  \/ \E e \in Given(FsEvents) : HandleFSEvent(e, UNCHANGED main_vars)

Spec == Init /\ [][Next]_vars

(***************************************************************************)
(* main: two producer threads, one channel, the dispatcher loop            *)
(***************************************************************************)

\* Model bounds: lines read from standard input (the empty reads at end of
\* input included) and raw events delivered by the watcher.
MaxInputs == 2
MaxFs == 2

\* The lines the parent sends in the runs of main.
MainLines ==
  { Line("VERSION", << <<"1">> >>),
    Line("START", <<id_a, s_x>>), Line("START", <<id_b, s_xy>>),
    Line("CHANGES", <<id_a>>), Line("RESET", <<id_a>>) }

\* A variant that receives the newest message first.
Channel_recv_Newest(q) ==
  [msg |-> q[Len(q)], rest |-> SubSeq(q, 1, Len(q) - 1)]

\* std::sync::mpsc: send appends, the receiver takes the oldest message.
Channel_send(q, m) == Append(q, m)
Channel_recv(q)    == [msg |-> Head(q), rest |-> Tail(q)]

\* History kept with a message: for a CHANGES line, the relative paths of
\* the events that were sent before it and that its reply owes.
Msg(ev, expect) == [ev |-> ev, expect |-> expect]

\* Whether a RESET of id waits in the channel.
ResetWaiting(q, id) ==
  \E i \in DOMAIN q :
    /\ q[i].ev.kind = "Input"
    /\ parse_input(q[i].ev.input) = [cmd |-> <<"RESET">>, args |-> <<id>>]

\* promised after an event with this path was sent.
PromisedAfterFs(path) ==
  [id \in DOMAIN promised |->
     IF /\ path # <<>>
        /\ id \in DOMAIN replicas
        /\ starts_with(path[1], replicas[id].root)
        /\ ~ResetWaiting(rx, id)
       THEN promised[id] \cup {strip_prefix(path[1], replicas[id].root)}
       ELSE promised[id]]

\* promised after this line was sent: CHANGES id and RESET id start anew.
PromisedAfterLine(line) ==
  LET p == parse_input(line) IN
  [id \in DOMAIN promised |->
     IF p.cmd \in {<<"CHANGES">>, <<"RESET">>} /\ p.args = <<id>>
       THEN {} ELSE promised[id]]

ExpectOf(line) ==
  LET p == parse_input(line) IN
  IF p.cmd = <<"CHANGES">> /\ Len(p.args) = 1 /\ p.args[1] \in DOMAIN promised
    THEN promised[p.args[1]] ELSE {}

\* The input thread: read_line, then tx_clone.send(Event::Input(input)).
ReadLine ==
  /\ status = "running"
  /\ stdin = "open"
  /\ nread < MaxInputs
  /\ \E line \in MainLines :
       /\ rx' = Channel_send(rx, Msg(Input(line), ExpectOf(line)))
       /\ promised' = PromisedAfterLine(line)
  /\ nread' = nread + 1
  /\ UNCHANGED <<monitor_vars, stdin, fsevent_rx, nfs>>

\* The parent closes its end of standard input.
CloseStdin ==
  /\ status = "running"
  /\ stdin = "open"
  /\ stdin' = "eof"
  /\ UNCHANGED <<monitor_vars, nread, fsevent_rx, nfs, rx, promised>>

\* The input thread at end of input: read_line returns Ok(0) and leaves
\* input empty, the loop sends the empty line and reads again.
ReadAtEof ==
  /\ status = "running"
  /\ stdin = "eof"
  /\ nread < MaxInputs
  /\ rx' = Channel_send(rx, Msg(Input(<<>>), {}))
  /\ nread' = nread + 1
  /\ UNCHANGED <<monitor_vars, stdin, fsevent_rx, nfs, promised>>

\* The input thread: read_line fails (`?`), the thread ends.
ReadError ==
  /\ status = "running"
  /\ stdin \in {"open", "eof"}
  /\ stdin' = "error"
  /\ UNCHANGED <<monitor_vars, nread, fsevent_rx, nfs, rx, promised>>

\* The watcher delivers a raw event: without a path, or with a path under
\* a path it watches.
Notify ==
  /\ status = "running"
  /\ nfs < MaxFs
  /\ \E path \in {<<>>} \cup
         {<<q>> : q \in {f \in FsPaths : \E w \in watcher : starts_with(f, w)}} :
       fsevent_rx' = Append(fsevent_rx, path)
  /\ nfs' = nfs + 1
  /\ UNCHANGED <<monitor_vars, stdin, nread, rx, promised>>

\* The forwarding thread: for event in fsevent_rx, tx.send(Event::FSEvent).
Forward ==
  /\ status = "running"
  /\ fsevent_rx # <<>>
  /\ rx' = Channel_send(rx, Msg(FSEvent(Head(fsevent_rx)), {}))
  /\ promised' = PromisedAfterFs(Head(fsevent_rx))
  /\ fsevent_rx' = Tail(fsevent_rx)
  /\ UNCHANGED <<monitor_vars, stdin, nread, nfs>>

\* main's loop: for event in rx, monitor.handle_event(event)?.
Dispatch ==
  /\ status = "running"
  /\ rx # <<>>
  /\ handle_event(Channel_recv(rx).msg.ev,
                  /\ rx' = Channel_recv(rx).rest
                  /\ UNCHANGED <<stdin, nread, fsevent_rx, nfs, promised>>)

NextMain ==
  \/ ReadLine
  \/ CloseStdin
  \/ ReadAtEof
  \/ ReadError
  \/ Notify
  \/ Forward
  \/ Dispatch

SpecMain == Init /\ [][NextMain]_vars

(***************************************************************************)
(* send_cmd on names with a space or a percent sign                        *)
(***************************************************************************)

MaxLen == 3

\* The characters of a file name: a letter, the space, the percent sign
\* and two digits (so that %20 is a name).
Alphabet == {"a", " ", "%", "2", "0"}

\* The file names of at most MaxLen characters.
Names == UNION {[1..k -> Alphabet] : k \in 1..MaxLen}

\* The monitor after START a /x and one event at /x/<name>: replica a has
\* the name pending.
InitCodec ==
  /\ \E name \in Names :
       replicas = (id_a :> [root |-> p_x, paths |-> {p_x},
                            pending_changes |-> {[abs |-> FALSE, comps |-> <<name>>]}])
  /\ current_path = p_x
  /\ link_map = EmptyMap
  /\ watcher = {p_x}
  /\ writer = <<send_changes(id_a)>>
  /\ calls = {}
  /\ status = "running"
  /\ event = NoEvent
  /\ stdin = "open"
  /\ nread = 0
  /\ fsevent_rx = <<>>
  /\ nfs = 0
  /\ rx = <<>>
  /\ promised = [id \in {id_a, id_b} |-> {}]

\* CHANGES a is handled: send_recursive writes the name through send_cmd.
NextCodec ==
  \E e \in Given({Input(Line("CHANGES", <<id_a>>))}) :
    Changes(e, UNCHANGED main_vars)

SpecCodec == InitCodec /\ [][NextCodec]_vars

(***************************************************************************)
(* Properties                                                              *)
(*                                                                         *)
(* Under Spec every step is one handle_event; event' is the event it was   *)
(* given, writer' the lines it wrote, calls' the Watch calls it made.      *)
(***************************************************************************)

Range(s) == {s[i] : i \in DOMAIN s}
Range2(f) == {f[k] : k \in DOMAIN f}

\* cmd is the input line <verb> <id>, parsed.
IsLine(cmd, verb, id) == cmd = [cmd |-> <<verb>>, args |-> <<id>>]

\* cmd is a START line, parsed, with the arguments START indexes.
IsStart(cmd) == cmd.cmd = <<"START">> /\ Len(cmd.args) >= 2

\* The step's event, parsed (an event that is no input line parses as the
\* empty line does).
StepCmd == parse_input(event'.input)

\* The last event handled was the input line <verb> <args>.
Handled(verb, args) == event = Input(Line(verb, args))

ModelIds == {id_a, id_b}

rel_yz == PathBuf_from(<<"y", "/", "z">>)
rel_yt == PathBuf_from(<<"y", "/", "\t">>)
rel_z  == PathBuf_from(<<"z">>)

\* C1: no pending change is lost before it is drained: a step that is
\* neither CHANGES id nor RESET id keeps replica id and every path in its
\* pending-changes set, and the reply to CHANGES id holds a RECURSIVE line
\* for every path that was pending for id.
C1_NoChangeLost ==
  [][LET cmd == StepCmd IN
     \A id \in DOMAIN replicas :
       IF IsLine(cmd, "CHANGES", id)
         THEN \A c \in replicas[id].pending_changes :
                send_cmd(<<"RECURSIVE">>, <<to_string_lossy(c)>>) \in Range(writer')
         ELSE \/ IsLine(cmd, "RESET", id)
              \/ /\ id \in DOMAIN replicas'
                 /\ replicas[id].pending_changes
                      \subseteq replicas'[id].pending_changes]_vars

\* The reply to CHANGES a reports two paths that stayed pending ...
C1_Witness ==
  /\ Handled("CHANGES", <<id_a>>)
  /\ Range(writer) =
       { <<"RECURSIVE", " ", "y", "/", "z">>,
         <<"RECURSIVE", " ", "y", "/", "%", "0", "9">>, <<"DONE">> }
  /\ id_b \in DOMAIN replicas
  /\ link_map # EmptyMap

\* C2: the dispatcher handles the messages of the channel oldest first, one
\* whole handle_event per message, and nothing else touches the monitor;
\* the reply to a CHANGES id line holds a RECURSIVE line for every event
\* that was sent on the channel before the line, while replica id was live
\* with a root above the event's path, with no RESET id waiting, and after
\* the last CHANGES id or RESET id line sent before it.
C2_SentBeforeIsReported ==
  [][IF Len(rx') < Len(rx)
       THEN /\ event' = rx[1].ev
            /\ rx' = Tail(rx)
            /\ \A c \in rx[1].expect :
                 send_cmd(<<"RECURSIVE">>, <<to_string_lossy(c)>>) \in Range(writer')
       ELSE UNCHANGED monitor_vars]_vars

\* CHANGES a was answered with the path of an event forwarded before it,
\* while an event forwarded after it waits in the channel.
C2_Witness ==
  /\ Handled("CHANGES", <<id_a>>)
  /\ writer = << <<"RECURSIVE", " ", "y", "/", "z">>, <<"DONE">> >>
  /\ rx # <<>>
  /\ rx[1].ev.kind = "FSEvent"

\* The candidate paths of an event path: the path itself and, for every
\* link to a real path above it, the link joined with what follows the
\* real path.
AliasCandidates(path) ==
  {path} \cup
  { [abs   |-> link.abs,
     comps |-> link.comps \o SubSeq(path.comps, Len(real.comps) + 1, Len(path.comps))] :
    <<real, link>> \in
      { rl \in (DOMAIN link_map) \X (UNION Range2(link_map)) :
          rl[2] \in link_map[rl[1]] /\ starts_with(path, rl[1]) } }

\* The paths of the candidates relative to root.
RelativeTo(root, cands) ==
  { [abs |-> FALSE, comps |-> SubSeq(c.comps, Len(root.comps) + 1, Len(c.comps))] :
    c \in {d \in cands : starts_with(d, root)} }

\* C3: handling an Fs event with path p inserts, for every live replica
\* whose root is a prefix of p or of an alias of p, the path relative to
\* the root into its pending-changes set, and writes exactly one CHANGES
\* <id> line for each such replica and no other line; with a at /x and b
\* at /x/y an event at /x/y/z notifies both, and a is owed y/z, b is owed z.
C3_EventAttribution ==
  [][(event'.kind = "FSEvent" /\ event'.path # <<>>) =>
       LET cands   == AliasCandidates(event'.path[1])
           matched == {id \in DOMAIN replicas :
                         RelativeTo(replicas[id].root, cands) # {}}
       IN /\ DOMAIN replicas' = DOMAIN replicas
          /\ \A id \in DOMAIN replicas :
               replicas'[id].pending_changes =
                 replicas[id].pending_changes
                   \cup RelativeTo(replicas[id].root, cands)
          /\ Len(writer') = Cardinality(matched)
          /\ Range(writer') = {<<"CHANGES", " ">> \o id : id \in matched}
          /\ ( /\ event'.path[1] = p_xyz
               /\ DOMAIN replicas = {id_a, id_b}
               /\ replicas[id_a].root = p_x
               /\ replicas[id_b].root = p_xy )
             => /\ Range(writer') = {<<"CHANGES", " ", "a">>, <<"CHANGES", " ", "b">>}
                /\ rel_yz \in replicas'[id_a].pending_changes
                /\ rel_z \in replicas'[id_b].pending_changes]_vars

\* After START a /x y (or START a /x) and START b /x/y, the event /x/y/z
\* was attributed to both replicas.
C3_Witness ==
  /\ event = FSEvent(<<p_xyz>>)
  /\ Len(writer) = 2
  /\ DOMAIN replicas = {id_a, id_b}
  /\ replicas[id_a].root = p_x
  /\ replicas[id_a].paths = {p_xy}
  /\ replicas[id_a].pending_changes = {rel_yz}
  /\ replicas[id_b].pending_changes = {rel_z}

\* C4: the reply to CHANGES id for a live replica is one RECURSIVE line per
\* path pending for id, then one DONE as the last line; afterwards id has
\* nothing pending and every other replica is as before.
C4_ChangesReply ==
  [][LET cmd == StepCmd IN
     \A id \in DOMAIN replicas :
       IsLine(cmd, "CHANGES", id) =>
         LET pending == replicas[id].pending_changes IN
         /\ Len(writer') = Cardinality(pending) + 1
         /\ writer'[Len(writer')] = <<"DONE">>
         /\ {writer'[i] : i \in 1..(Len(writer') - 1)} =
              {<<"RECURSIVE", " ">> \o encode(to_string_lossy(c)) : c \in pending}
         /\ DOMAIN replicas' = DOMAIN replicas
         /\ replicas'[id].pending_changes = {}
         /\ replicas'[id].root = replicas[id].root
         /\ replicas'[id].paths = replicas[id].paths
         /\ \A other \in DOMAIN replicas \ {id} :
              replicas'[other] = replicas[other]]_vars

\* CHANGES a was answered with two RECURSIVE lines and DONE, a is drained
\* and b still has its pending change.
C4_Witness ==
  /\ Handled("CHANGES", <<id_a>>)
  /\ Len(writer) = 3
  /\ writer[3] = <<"DONE">>
  /\ replicas[id_a].pending_changes = {}
  /\ id_b \in DOMAIN replicas
  /\ replicas[id_b].pending_changes = {rel_z}

\* The identifier, root and effective path a START line names.
StartId(cmd)   == cmd.args[1]
StartRoot(cmd) == PathBuf_from(cmd.args[2])
StartPath(cmd) ==
  IF Len(cmd.args) >= 3
    THEN [abs   |-> StartRoot(cmd).abs,
          comps |-> StartRoot(cmd).comps
                      \o SplitAt(cmd.args[3], {"/"}, 1, <<>>)]
    ELSE StartRoot(cmd)

\* C5: every watched path of every replica has the replica's root as a
\* prefix.
C5_WatchedUnderRoot ==
  \A id \in DOMAIN replicas :
    \A w \in replicas[id].paths : starts_with(w, replicas[id].root)

\* C6: RESET id removes replica id and leaves the others as they are,
\* writes nothing, and unwatches only paths of the removed replica that no
\* remaining replica watches: all of them when no unwatch fails. RESET of
\* an id that is not live changes nothing.
C6_ResetUnwatches ==
  [][LET cmd == StepCmd IN
     \A id \in ModelIds :
       IsLine(cmd, "RESET", id) =>
         /\ writer' = <<>>
         /\ UNCHANGED <<current_path, link_map>>
         /\ IF id \in DOMAIN replicas
              THEN LET others == DOMAIN replicas \ {id}
                       StillWatched(q) ==
                         \E o \in others :
                           \E base \in replicas[o].paths : starts_with(q, base)
                       due == {q \in replicas[id].paths : ~StillWatched(q)}
                   IN /\ DOMAIN replicas' = others
                      /\ \A o \in others : replicas'[o] = replicas[o]
                      /\ \A c \in calls' : c.op = "unwatch" /\ c.path \in due
                      /\ watcher \ watcher' \subseteq due
                      /\ status' = "running" =>
                           /\ {c.path : c \in calls'} = due
                           /\ watcher' = watcher \ due
              ELSE /\ UNCHANGED <<replicas, watcher, status>>
                   /\ calls' = {}]_vars

\* RESET b made no unwatch call: replica a, which watches /x, still covers
\* the /x/y that was watched for b.
C6_Witness ==
  /\ Handled("RESET", <<id_b>>)
  /\ calls = {}
  /\ DOMAIN replicas = {id_a}
  /\ replicas[id_a].paths = {p_x}
  /\ watcher = {p_x, p_xy}
  /\ status = "running"

\* C7: a START whose effective path has a watched path of the replica as a
\* prefix adds no path, makes no Watch call and writes OK; a START line
\* handled twice in a row changes nothing the second time, so the set
\* keeps its size and the two together call watch at most once.
C7_StartIdempotent ==
  [][LET cmd == StepCmd IN
     IsStart(cmd) =>
       /\ ( /\ StartId(cmd) \in DOMAIN replicas
            /\ \E base \in replicas[StartId(cmd)].paths : starts_with(StartPath(cmd), base) )
          => /\ calls' = {}
             /\ UNCHANGED <<replicas, watcher, status>>
             /\ writer' = << <<"OK">> >>
       /\ (event' = event /\ status = "running" /\ writer = << <<"OK">> >>)
          => /\ calls' = {}
             /\ UNCHANGED <<replicas, watcher>>
             /\ Cardinality(calls \cup calls') <= 1
             /\ writer' = << <<"OK">> >>]_vars

\* START a /x was handled when a already watched /x alone: no call was
\* made, the set still has its one element.
C7_Witness ==
  /\ Handled("START", <<id_a, s_x>>)
  /\ calls = {}
  /\ writer = << <<"OK">> >>
  /\ replicas[id_a].paths = {p_x}
  /\ watcher = {p_x}

\* C8: a START of a live id keeps the replica's root, watched paths and
\* pending changes and the set of replicas, and adds at most the effective
\* path; a START of a new id that completes adds one replica with that
\* root, nothing pending and the effective path as its only watched path;
\* no other replica changes.
C8_StartKeepsReplica ==
  [][LET cmd == StepCmd IN
     IsStart(cmd) =>
       /\ \A o \in DOMAIN replicas \ {StartId(cmd)} :
            o \in DOMAIN replicas' /\ replicas'[o] = replicas[o]
       /\ DOMAIN replicas' = DOMAIN replicas \cup {StartId(cmd)}
       /\ IF StartId(cmd) \in DOMAIN replicas
            THEN /\ replicas'[StartId(cmd)].root = replicas[StartId(cmd)].root
                 /\ replicas'[StartId(cmd)].pending_changes
                      = replicas[StartId(cmd)].pending_changes
                 /\ replicas[StartId(cmd)].paths \subseteq replicas'[StartId(cmd)].paths
                 /\ replicas'[StartId(cmd)].paths \ replicas[StartId(cmd)].paths
                      \subseteq {StartPath(cmd)}
            ELSE status' = "running" =>
                   replicas'[StartId(cmd)] =
                     [root |-> StartRoot(cmd), paths |-> {StartPath(cmd)},
                      pending_changes |-> {}]]_vars

\* START a /x was handled for the live replica a (root /x, watching /x/y,
\* y/z pending): /x was added, the rest was kept.
C8_Witness ==
  /\ Handled("START", <<id_a, s_x>>)
  /\ calls = {[op |-> "watch", path |-> p_x]}
  /\ replicas[id_a] =
       [root |-> p_x, paths |-> {p_x, p_xy}, pending_changes |-> {rel_yz}]

\* C9 as claimed: CHANGES id for an id that is not live writes ERROR
\* Unknown replica: <id>, no DONE, and ends the process with status 1.
C9_UnknownChangesFatal ==
  [][LET cmd == StepCmd IN
     \A id \in ModelIds :
       (IsLine(cmd, "CHANGES", id) /\ id \notin DOMAIN replicas) =>
         /\ writer' = << <<"ERROR", " ", "Unknown", " ", "replica:", " ">> \o id >>
         /\ status' = "exit1"]_vars

\* C9 as amended: CHANGES id for an id that is not live writes the one line
\* DONE, changes no state and the monitor keeps running.
C9_UnknownChangesDone ==
  [][LET cmd == StepCmd IN
     \A id \in ModelIds :
       (IsLine(cmd, "CHANGES", id) /\ id \notin DOMAIN replicas) =>
         /\ writer' = << <<"DONE">> >>
         /\ status' = "running"
         /\ calls' = {}
         /\ UNCHANGED <<current_path, replicas, link_map, watcher>>]_vars

\* CHANGES b was answered with DONE alone while only a is live.
C9_Witness ==
  /\ Handled("CHANGES", <<id_b>>)
  /\ DOMAIN replicas = {id_a}
  /\ writer = << <<"DONE">> >>
  /\ status = "running"

\* C10: WAIT id writes ERROR Unknown replica: <id> and exits with status 1
\* exactly when id is not live, and otherwise writes nothing and changes
\* nothing; id is live after a START id, not live after a RESET id, and as
\* before after any other event, so WAIT id right after RESET id is the
\* error.
C10_WaitUnknown ==
  [][LET cmd == StepCmd IN
     \A id \in ModelIds :
       /\ IsLine(cmd, "WAIT", id) =>
            /\ IF id \notin DOMAIN replicas
                 THEN /\ writer' =
                           << <<"ERROR", " ", "Unknown", " ", "replica:", " ">> \o id >>
                      /\ status' = "exit1"
                      /\ ExitCode(status') = 1
                 ELSE /\ writer' = <<>>
                      /\ calls' = {}
                      /\ UNCHANGED <<current_path, replicas, link_map, watcher, status>>
            /\ event = Input(Line("RESET", <<id>>)) => status' = "exit1"
       /\ (id \in DOMAIN replicas') =
            IF IsStart(cmd) /\ StartId(cmd) = id THEN TRUE
            ELSE IF IsLine(cmd, "RESET", id) THEN FALSE
            ELSE id \in DOMAIN replicas]_vars

\* WAIT a ended the monitor with the error line while b is live and a,
\* whose watch on /x is gone, is not.
C10_Witness ==
  /\ Handled("WAIT", <<id_a>>)
  /\ writer = << <<"ERROR", " ", "Unknown", " ", "replica:", " ", "a">> >>
  /\ status = "exit1"
  /\ DOMAIN replicas = {id_b}
  /\ replicas[id_b].pending_changes # {}

\* The line VERSION 1 as send_cmd writes it.
VersionLine == <<"VERSION", " ", "1">>

\* C11: before any event is handled the monitor has written the one line
\* VERSION 1, and no handler writes it again: the VERSION 1 input line
\* gets no response.
C11_VersionFirst ==
  /\ event = NoEvent => writer = <<VersionLine>>
  /\ event # NoEvent => VersionLine \notin Range(writer)

\* C12: handling VERSION 1 writes the one line VERSION 1, goes on, makes no
\* Watch call and keeps the registry, the link map and the current path; a
\* VERSION line with another argument fails the handler (the Err ends main)
\* and writes no line.
C12_VersionReply ==
  [][LET cmd == StepCmd IN
     (cmd.cmd = <<"VERSION">> /\ Len(cmd.args) >= 1) =>
       /\ UNCHANGED <<current_path, replicas, link_map, watcher>>
       /\ calls' = {}
       /\ IF cmd.args[1] = <<"1">>
            THEN writer' = <<VersionLine>> /\ status' = "running"
            ELSE writer' = <<>> /\ status' = "err"]_vars

\* VERSION 1 was answered with VERSION 1 while a was live with a change
\* pending and a link was mapped.
C12_Witness ==
  /\ Handled("VERSION", << <<"1">> >>)
  /\ writer = <<VersionLine>>
  /\ status = "running"
  /\ id_a \in DOMAIN replicas
  /\ replicas[id_a].pending_changes # {}
  /\ link_map # EmptyMap

C14_EofCleanExit ==
  (stdin = "eof" /\ event = Input(<<>>)) =>
    /\ \A l \in Range(writer) : l[1] # "ERROR"
    /\ status # "running" => ExitCode(status) = 0

\* The verbs handle_event knows.
Verbs ==
  {<<"VERSION">>, <<"DEBUG">>, <<"START">>, <<"DIR">>, <<"LINK">>,
   <<"WAIT">>, <<"CHANGES">>, <<"RESET">>, <<"DONE">>}

\* C15 as claimed: a line with an unknown verb gets the one line ERROR
\* Unexpected cmd: <verb>, the process ends with status 1, the registry is
\* as it was, and nothing is handled after the process ended.
C15_UnexpectedCmd ==
  [][LET cmd == StepCmd IN
     /\ status = "running"
     /\ (event'.kind = "Input" /\ cmd.cmd \notin Verbs) =>
          /\ writer' = << <<"ERROR", " ", "Unexpected", " ", "cmd:", " ">> \o cmd.cmd >>
          /\ status' = "exit1"
          /\ ExitCode(status') = 1
          /\ UNCHANGED replicas]_vars

\* C15 as amended: the line written is ERROR Unrecognized cmd: <verb>.
C15_UnrecognizedCmd ==
  [][LET cmd == StepCmd IN
     /\ status = "running"
     /\ (event'.kind = "Input" /\ cmd.cmd \notin Verbs) =>
          /\ writer' =
               << <<"ERROR", " ">>
                    \o encode(<<"Unrecognized", " ", "cmd:", " ">> \o cmd.cmd) >>
          /\ status' = "exit1"
          /\ ExitCode(status') = 1
          /\ UNCHANGED <<current_path, replicas, link_map, watcher>>
          /\ calls' = {}]_vars

\* FROB 1 ended the monitor with the error line while a was live with a
\* change pending.
C15_Witness ==
  /\ Handled("FROB", << <<"1">> >>)
  /\ writer = << <<"ERROR", " ", "Unrecognized", " ", "cmd:", " ", "FROB">> >>
  /\ status = "exit1"
  /\ id_a \in DOMAIN replicas
  /\ replicas[id_a].pending_changes # {}

\* The path a LINK line names: the current path followed by the components
\* of the line's argument.
LinkedPath(cmd) ==
  [abs   |-> current_path.abs,
   comps |-> current_path.comps \o
               (IF cmd.args = <<>> THEN <<>> ELSE SplitAt(cmd.args[1], {"/"}, 1, <<>>))]

p_xlz  == PathBuf_from(<<"/", "x", "/", "l", "/", "z">>)
rel_lz == PathBuf_from(<<"l", "/", "z">>)

\* C16: a LINK that completes files the link's path under its real path in
\* the link map and has the real path watched; no step takes an entry out
\* of the link map; an Fs event below a real path of the link map inserts,
\* for every alias of the event's path and every replica whose root is a
\* prefix of the alias, the alias relative to the root into the replica's
\* pending changes and writes CHANGES <id>.
C16_LinkAliases ==
  [][LET cmd == StepCmd IN
     /\ (event'.kind = "Input" /\ cmd.cmd = <<"LINK">> /\ status' = "running") =>
          /\ canonicalize(LinkedPath(cmd)) # <<>>
          /\ LET C == canonicalize(LinkedPath(cmd))[1]
             IN /\ C \in DOMAIN link_map'
                /\ LinkedPath(cmd) \in link_map'[C]
                /\ calls' = {[op |-> "watch", path |-> C]}
                /\ C \in watcher'
     /\ \A C \in DOMAIN link_map :
          C \in DOMAIN link_map' /\ link_map[C] \subseteq link_map'[C]
     /\ ( /\ event'.kind = "FSEvent"
          /\ event'.path # <<>>
          /\ \E C \in DOMAIN link_map : starts_with(event'.path[1], C) )
        => \A id \in DOMAIN replicas :
             \A r \in RelativeTo(replicas[id].root,
                                AliasCandidates(event'.path[1]) \ {event'.path[1]}) :
               /\ id \in DOMAIN replicas'
               /\ r \in replicas'[id].pending_changes
               /\ <<"CHANGES", " ">> \o id \in Range(writer')
     /\ ( /\ event' = FSEvent(<<p_rz>>)
          /\ p_r \in DOMAIN link_map
          /\ p_xl \in link_map[p_r]
          /\ id_a \in DOMAIN replicas
          /\ replicas[id_a].root = p_x )
        => /\ rel_lz \in replicas'[id_a].pending_changes
           /\ <<"CHANGES", " ", "a">> \in Range(writer')]_vars

\* After START a /x and LINK l, with /x/l a link to /r, the event /r/z was
\* reported to a as l/z although /r is under no root.
C16_Witness ==
  /\ event = FSEvent(<<p_rz>>)
  /\ link_map = (p_r :> {p_xl})
  /\ p_r \in watcher
  /\ DOMAIN replicas = {id_a}
  /\ replicas[id_a].root = p_x
  /\ replicas[id_a].pending_changes = {rel_lz}
  /\ writer = << <<"CHANGES", " ", "a">> >>

\* C17: no Fs event changes the current path, the link map, the set of
\* live replicas, a root or a set of watched paths, makes a Watch call or
\* ends the process; an Fs event without a path, or whose path and aliases
\* are under no replica's root, writes nothing and leaves the pending
\* changes as they are too.
C17_EventFrame ==
  [][event'.kind = "FSEvent" =>
       /\ UNCHANGED <<current_path, link_map, watcher, status>>
       /\ calls' = {}
       /\ DOMAIN replicas' = DOMAIN replicas
       /\ \A id \in DOMAIN replicas :
            /\ replicas'[id].root = replicas[id].root
            /\ replicas'[id].paths = replicas[id].paths
       /\ ( \/ event'.path = <<>>
            \/ \A id \in DOMAIN replicas :
                 RelativeTo(replicas[id].root,
                            AliasCandidates(event'.path[1])) = {} )
          => /\ writer' = <<>>
             /\ UNCHANGED replicas]_vars

\* The event /r/z was handled while a, at /x, had y/z pending and no link
\* was mapped: nothing was written, y/z alone is pending.
C17_Witness ==
  /\ event = FSEvent(<<p_rz>>)
  /\ link_map = EmptyMap
  /\ DOMAIN replicas = {id_a}
  /\ replicas[id_a].root = p_x
  /\ replicas[id_a].pending_changes = {rel_yz}
  /\ writer = <<>>

\* C18: when the watch call of a START or LINK fails, the monitor has
\* written an ERROR line and no OK, the path is in no set of watched paths
\* and not in the link map, and the process ended with status 1.
C18_WatchFailure ==
  [][LET cmd == StepCmd IN
     ( /\ event'.kind = "Input"
       /\ cmd.cmd \in {<<"START">>, <<"LINK">>}
       /\ calls' # {}
       /\ status' # "running" )
     => /\ \E l \in Range(writer') : l[1] = "ERROR"
        /\ <<"OK">> \notin Range(writer')
        /\ UNCHANGED link_map
        /\ \A id \in DOMAIN replicas' :
             replicas'[id].paths =
               IF id \in DOMAIN replicas THEN replicas[id].paths ELSE {}
        /\ ExitCode(status') = 1]_vars

\* C19: every argument written is encoded so that the line splits at
\* whitespace into the verb and that one argument, and decoding the
\* argument gives back the string: for every path pending for a, the reply
\* to CHANGES a has a line that parses as RECURSIVE with the path as its
\* only argument, and decode(encode(x)) = x for the path's string x.
C19_RoundTrip ==
  [][LET cmd == StepCmd IN
     (IsLine(cmd, "CHANGES", id_a) /\ id_a \in DOMAIN replicas) =>
       \A c \in replicas[id_a].pending_changes :
         /\ decode(encode(to_string_lossy(c))) = to_string_lossy(c)
         /\ \E l \in Range(writer') :
              parse_input(l \o <<"\n">>) =
                [cmd |-> <<"RECURSIVE">>, args |-> <<to_string_lossy(c)>>]]_vars

\* C20: while the monitor runs and no link is mapped, every path the
\* watcher watches is in the set of watched paths of a live replica; with
\* no replica live nothing is watched.
C20_NoWatchLeak ==
  (status = "running" /\ link_map = EmptyMap) =>
    watcher \subseteq UNION {replicas[id].paths : id \in DOMAIN replicas}

====
